---- MODULE Spec2Model ----
(***************************************************************************)
(* Model of pyannote.audio's Pipeline (core/pipeline.py) and of the typed  *)
(* loaders of pipelines/utils/getter.py.                                   *)
(*                                                                         *)
(* The pipeline object is its instance dictionary and the five ordered     *)
(* tables kept beside it: _parameters, _instantiated and _pipelines of the *)
(* inherited pyannote.pipeline.Pipeline, _models and _inferences of the    *)
(* audio Pipeline.  An ordered table (OrderedDict) is a sequence of        *)
(* <<name, value>> pairs in insertion order.  Objects that live on a       *)
(* compute device (modules, inference wrappers, sub-pipelines) are         *)
(* references: device_of is the heap that records where each one is.       *)
(***************************************************************************)
EXTENDS Integers, Sequences, FiniteSets, TLC

VARIABLES
    constructed,    \* Pipeline.__init__ has run: the five tables exist
    __dict__,       \* plain attributes of the instance
    _parameters,    \* name -> Parameter            (inherited table)
    _instantiated,  \* name -> instantiated value   (inherited table)
    _pipelines,     \* name -> sub-pipeline         (inherited table)
    _models,        \* name -> nn.Module
    _inferences,    \* name -> BaseInference
    device,         \* the pipeline's `device` attribute, "unset" until assigned
    device_of,      \* heap: object -> device it is on
    res,            \* outcome of the last operation on the pipeline
    num_gpus,       \* torch.cuda.device_count()
    fs,             \* the file system the loaders read: path -> entry
    lres,           \* outcome of the last call of a loader
    load_args,      \* what from_pretrained is called with: the checkpoint
                    \* file, its YAML content, hparams_file
    preprocessors,  \* the pipeline's `preprocessors` attribute
    fres            \* outcome of the last call of from_pretrained

pvars == <<constructed, __dict__, _parameters, _instantiated, _pipelines,
           _models, _inferences, device, device_of, res>>

lvars == <<num_gpus, fs, lres>>

fvars == <<load_args, preprocessors, fres>>

vars == <<pvars, lvars, fvars>>

(***************************************************************************)
(* Values an attribute can be assigned, by the class the setter tests for. *)
(***************************************************************************)
Names        == {"x", "y"}
Modules      == {"m1", "m2"}          \* isinstance(value, nn.Module)
Inferences   == {"i1"}                \* isinstance(value, BaseInference)
Parameters   == {"q1"}                \* isinstance(value, Parameter)
SubPipelines == {"p1", "p2"}          \* isinstance(value, Pipeline)
WithTo       == {"p1"}                \* sub-pipelines with hasattr(p, "to")
Scalars      == {"s1"}                \* anything else
Values       == Modules \cup Inferences \cup Parameters \cup SubPipelines \cup Scalars
Objects      == Modules \cup Inferences \cup WithTo

TorchDevices == {"cpu", "cuda:0"}     \* instances of torch.device
NotDevices   == {"str"}               \* an argument that is no torch.device
DeviceArgs   == TorchDevices \cup NotDevices

(***************************************************************************)
(* OrderedDict                                                             *)
(***************************************************************************)
Has(d, name)     == \E i \in 1..Len(d) : d[i][1] = name
Lookup(d, name)  == d[CHOOSE i \in 1..Len(d) : d[i][1] = name][2]
Put(d, name, v)  ==
    IF Has(d, name)
    THEN [i \in 1..Len(d) |-> IF d[i][1] = name THEN <<name, v>> ELSE d[i]]
    ELSE Append(d, <<name, v>>)
Del(d, name)     == SelectSeq(d, LAMBDA e : e[1] # name)
Keys(d)          == {d[i][1] : i \in 1..Len(d)}
ValuesOf(d)      == [i \in 1..Len(d) |-> d[i][2]]
Range(s)         == {s[i] : i \in 1..Len(s)}

(***************************************************************************)
(* The pipeline as one record, so that an operation is a function from a   *)
(* pipeline to a pipeline and an outcome.                                  *)
(***************************************************************************)
Self ==
    [init |-> constructed, dict |-> __dict__, params |-> _parameters,
     inst |-> _instantiated, pipes |-> _pipelines, models |-> _models,
     infs |-> _inferences]

Become(S) ==
    /\ constructed' = S.init
    /\ __dict__' = S.dict
    /\ _parameters' = S.params
    /\ _instantiated' = S.inst
    /\ _pipelines' = S.pipes
    /\ _models' = S.models
    /\ _inferences' = S.infs

Result(op, name, arg, out, cause, log) ==
    [op |-> op, name |-> name, arg |-> arg, out |-> out, cause |-> cause,
     log |-> log]

Returns(S, v) == [st |-> S, out |-> v]
Raises(S, e)  == [st |-> S, out |-> e]

\* remove_from that finds the name and leaves it
remove_from_keeps(d, name) == d

\* remove_from(*dicts), for one dict
remove_from(d, name) == IF Has(d, name) THEN Del(d, name) ELSE d

(***************************************************************************)
(* The inherited pyannote.pipeline.Pipeline, which the audio Pipeline      *)
(* reaches through super(): it knows its own three tables and the instance *)
(* dictionary, and nothing of _models and _inferences.                     *)
(***************************************************************************)
super__setattr__(S, name, value) ==
    IF value \in Parameters THEN
        IF ~S.init THEN Raises(S, "AttributeError")
        ELSE Returns([S EXCEPT !.dict = remove_from(@, name),
                               !.inst = remove_from(@, name),
                               !.pipes = remove_from(@, name),
                               !.params = Put(@, name, value)], "None")
    ELSE IF value \in SubPipelines THEN
        IF ~S.init THEN Raises(S, "AttributeError")
        ELSE Returns([S EXCEPT !.dict = remove_from(@, name),
                               !.params = remove_from(@, name),
                               !.inst = remove_from(@, name),
                               !.pipes = Put(@, name, value)], "None")
    ELSE IF S.init /\ Has(S.params, name) THEN
        Returns([S EXCEPT !.inst = Put(@, name, value)], "None")
    ELSE Returns([S EXCEPT !.dict = Put(@, name, value)], "None")

super__getattr__(S, name) ==
    IF S.init /\ Has(S.inst, name) THEN Returns(S, Lookup(S.inst, name))
    ELSE IF S.init /\ Has(S.params, name) THEN Returns(S, Lookup(S.params, name))
    ELSE IF S.init /\ Has(S.pipes, name) THEN Returns(S, Lookup(S.pipes, name))
    ELSE Raises(S, "AttributeError")

super__delattr__(S, name) ==
    IF Has(S.params, name) THEN Returns([S EXCEPT !.params = Del(@, name)], "None")
    ELSE IF Has(S.inst, name) THEN Returns([S EXCEPT !.inst = Del(@, name)], "None")
    ELSE IF Has(S.pipes, name) THEN Returns([S EXCEPT !.pipes = Del(@, name)], "None")
    ELSE IF Has(S.dict, name) THEN Returns([S EXCEPT !.dict = Del(@, name)], "None")
    ELSE Raises(S, "AttributeError")

\* the `instantiated` property: every parameter has an instantiated value
instantiated(S) == Keys(S.params) \subseteq Keys(S.inst)

\* instantiate(params) with a complete, valid parameter set: setattr of a value
\* for every parameter; with an incompatible set it raises ValueError instead
RECURSIVE SetAll(_, _)
SetAll(S, names) ==
    IF names = <<>> THEN S
    ELSE SetAll(super__setattr__(S, Head(names)[1], "s1").st, Tail(names))

instantiate(S, valid) ==
    IF valid THEN Returns(SetAll(S, S.params), "self")
    ELSE Raises(S, "ValueError")

(***************************************************************************)
(* Pipeline.__init__                                                       *)
(***************************************************************************)
__init__(S) ==
    [S EXCEPT !.init = TRUE, !.params = <<>>, !.inst = <<>>, !.pipes = <<>>,
              !.models = <<>>, !.infs = <<>>]

(***************************************************************************)
(* Pipeline.__getattr__: the hook Python calls when the normal lookup      *)
(* (instance dictionary, class) has not found the name.                    *)
(***************************************************************************)
__getattr__(S, name) ==
    IF S.init /\ Has(S.models, name) THEN Returns(S, Lookup(S.models, name))
    ELSE IF S.init /\ Has(S.infs, name) THEN Returns(S, Lookup(S.infs, name))
    ELSE super__getattr__(S, name)

\* the attribute access `pipeline.name`
getattr(S, name) ==
    IF Has(S.dict, name) THEN Returns(S, Lookup(S.dict, name))
    ELSE __getattr__(S, name)

(***************************************************************************)
(* Pipeline.__setattr__                                                    *)
(***************************************************************************)
__setattr__(S, name, value) ==
    IF value \in Modules THEN
        IF ~S.init THEN Raises(S, "AttributeError")
        ELSE Returns([S EXCEPT !.dict = remove_from(@, name),
                               !.infs = remove_from(@, name),
                               !.params = remove_from(@, name),
                               !.inst = remove_from(@, name),
                               !.pipes = remove_from(@, name),
                               !.models = Put(@, name, value)], "None")
    ELSE IF value \in Inferences THEN
        IF ~S.init THEN Raises(S, "AttributeError")
        ELSE Returns([S EXCEPT !.dict = remove_from(@, name),
                               !.models = remove_from(@, name),
                               !.params = remove_from(@, name),
                               !.inst = remove_from(@, name),
                               !.pipes = remove_from(@, name),
                               !.infs = Put(@, name, value)], "None")
    ELSE super__setattr__(S, name, value)

\* __delattr__ with `if` for `elif`: after the models table, the name is
\* looked up again and deleted from where else it is
__delattr__falls_through(S, name) ==
    IF ~S.init THEN Raises(S, "AttributeError")
    ELSE IF Has(S.models, name) THEN
        LET T == [S EXCEPT !.models = Del(@, name)]
        IN  IF Has(T.infs, name) THEN Returns([T EXCEPT !.infs = Del(@, name)], "None")
            ELSE Returns(super__delattr__(T, name).st, "None")
    ELSE IF Has(S.infs, name) THEN
        Returns([S EXCEPT !.infs = Del(@, name)], "None")
    ELSE super__delattr__(S, name)

(***************************************************************************)
(* Pipeline.__delattr__: self._models is itself an attribute access, which *)
(* fails before __init__.                                                  *)
(***************************************************************************)
__delattr__(S, name) ==
    IF ~S.init THEN Raises(S, "AttributeError")
    ELSE IF Has(S.models, name) THEN
        Returns([S EXCEPT !.models = Del(@, name)], "None")
    ELSE IF Has(S.infs, name) THEN
        Returns([S EXCEPT !.infs = Del(@, name)], "None")
    ELSE super__delattr__(S, name)

(***************************************************************************)
(* Pipeline.__call__(file).  `defaults` is what the subclass's             *)
(* default_parameters() does: raise NotImplementedError (the base method), *)
(* or return a parameter set that instantiate() accepts or rejects.        *)
(* `valid_file` is whether Audio.validate_file accepts the file.           *)
(***************************************************************************)
DefaultParameters == {"NotImplementedError", "compatible", "incompatible"}

apply_to_file(S, valid_file) ==
    IF valid_file THEN [st |-> S, out |-> "apply", cause |-> "none"]
    ELSE [st |-> S, out |-> "ValueError", cause |-> "none"]

\* __call__ without the second try/except: instantiate's ValueError escapes
__call__unguarded(S, defaults, valid_file) ==
    IF ~S.init THEN [st |-> S, out |-> "AttributeError", cause |-> "none"]
    ELSE IF ~instantiated(S) THEN
        IF defaults = "NotImplementedError" THEN
            [st |-> S, out |-> "RuntimeError", cause |-> "NotImplementedError"]
        ELSE
            LET r == instantiate(S, defaults = "compatible")
            IN  IF r.out = "ValueError"
                THEN [st |-> r.st, out |-> "ValueError", cause |-> "ValueError"]
                ELSE apply_to_file(r.st, valid_file)
    ELSE apply_to_file(S, valid_file)

__call__(S, defaults, valid_file) ==
    IF ~S.init THEN [st |-> S, out |-> "AttributeError", cause |-> "none"]
    ELSE IF ~instantiated(S) THEN
        IF defaults = "NotImplementedError" THEN
            [st |-> S, out |-> "RuntimeError", cause |-> "NotImplementedError"]
        ELSE
            LET r == instantiate(S, defaults = "compatible")
            IN  IF r.out = "ValueError"
                THEN [st |-> r.st, out |-> "RuntimeError", cause |-> "ValueError"]
                ELSE apply_to_file(r.st, valid_file)
    ELSE apply_to_file(S, valid_file)

(***************************************************************************)
(* Pipeline.to(device).  The transfers of the sub-objects are calls into   *)
(* torch and into other pipelines, each of which can raise: `fail` is the  *)
(* position of the transfer that raises (0: none does) and `kind` the      *)
(* class of what it raises.  A transfer that raises moves nothing.  `log`  *)
(* lists what was done, in order; "self" is the assignment self.device.    *)
(***************************************************************************)
FailureKinds == {"RuntimeError", "AssertionError"}

\* to() with the loops over _models and _inferences exchanged
to_order_swapped(S) ==
    SelectSeq(ValuesOf(S.pipes), LAMBDA p : p \in WithTo)
        \o ValuesOf(S.infs) \o ValuesOf(S.models)

to_order(S) ==
    SelectSeq(ValuesOf(S.pipes), LAMBDA p : p \in WithTo)
        \o ValuesOf(S.models) \o ValuesOf(S.infs)

to(S, heap, dev, arg, fail, kind) ==
    IF arg \notin TorchDevices THEN
        [heap |-> heap, device |-> dev, out |-> "TypeError", log |-> <<>>]
    ELSE IF ~S.init THEN
        [heap |-> heap, device |-> dev, out |-> "AttributeError", log |-> <<>>]
    ELSE
        LET order == to_order(S)
            fails == fail \in 1..Len(order)
            done  == IF fails THEN SubSeq(order, 1, fail - 1) ELSE order
            moved == [o \in Objects |-> IF o \in Range(done) THEN arg ELSE heap[o]]
        IN  IF fails
            THEN [heap |-> moved, device |-> dev, out |-> kind, log |-> done]
            ELSE [heap |-> moved, device |-> arg, out |-> "self",
                  log |-> done \o <<"self">>]

(***************************************************************************)
(* getter.py: get_model.  A path of the file system is absent, a file that *)
(* torch.load reads, or a directory that may hold a file model.pth.  `pth` *)
(* is the mode the pickled module was in when it was saved ("none": there  *)
(* is no such file); torch.load returns the module as it was saved.        *)
(***************************************************************************)
Paths   == {"a", "b"}
Entries ==
    {[kind |-> "absent", pth |-> "none"]}
        \cup [kind : {"file"}, pth : {"train", "eval"}]
        \cup [kind : {"dir"}, pth : {"none", "train", "eval"}]

\* what get_model is given: a str, a Mapping with or without a usable
\* "checkpoint", or something else (an already built Model)
ModelArgs ==
    [type : {"str"}, path : Paths]
        \cup [type : {"Mapping"}, path : Paths \cup {"None"}]
        \cup [type : {"Model"}, path : {"None"}]

isfile(F, path)      == path \in Paths /\ F[path].kind = "file"
isfile_in(F, path)   == path \in Paths /\ F[path].kind = "dir" /\ F[path].pth # "none"
torch_load(F, path)  == [out |-> "model", training |-> (F[path].pth = "train")]
Failed(e)            == [out |-> e, training |-> FALSE]

get_model(F, model) ==
    IF model.type = "str" THEN
        IF isfile(F, model.path) THEN torch_load(F, model.path)
        ELSE IF isfile_in(F, model.path) THEN torch_load(F, model.path)
        ELSE Failed("FileNotFoundError")
    ELSE IF model.type = "Mapping" THEN
        IF model.path # "None" /\ isfile(F, model.path)
        THEN torch_load(F, model.path)
        ELSE Failed("FileNotFoundError")
    ELSE Failed("TypeError")

(***************************************************************************)
(* getter.py: get_devices.  `needs` is [given |-> FALSE] for None.         *)
(***************************************************************************)
MaxGpus  == 3
MaxNeeds == 6

cpu       == <<"cpu", -1>>                    \* torch.device("cpu")
cuda(i)   == <<"cuda", i>>                    \* torch.device(f"cuda:{i:d}")
NoNeeds   == [given |-> FALSE, n |-> 0]
NeedsArgs == {NoNeeds} \cup [given : {TRUE}, n : 0..MaxNeeds]

\* devices * needs
RECURSIVE times(_, _)
times(list, n) == IF n <= 0 THEN <<>> ELSE list \o times(list, n - 1)

\* a cycle that stops at the end of the list instead of starting over
RECURSIVE zip_cycle_once(_, _, _)
zip_cycle_once(n, list, pos) ==
    IF n <= 0 \/ list = <<>> THEN <<>>
    ELSE <<list[pos]>>
             \o zip_cycle_once(n - 1, list, IF pos = Len(list) THEN pos ELSE pos + 1)

\* [device for _, device in zip(range(n), itertools.cycle(list))]: the cycle
\* yields the list's items in order and starts over after the last
RECURSIVE zip_cycle(_, _, _)
zip_cycle(n, list, pos) ==
    IF n <= 0 \/ list = <<>> THEN <<>>
    ELSE <<list[pos]>>
             \o zip_cycle(n - 1, list, IF pos = Len(list) THEN 1 ELSE pos + 1)

get_devices(gpus, needs) ==
    IF gpus = 0 THEN
        IF ~needs.given THEN <<cpu>> ELSE times(<<cpu>>, needs.n)
    ELSE
        LET devices == [index \in 1..gpus |-> cuda(index - 1)]
        IN  IF ~needs.given THEN devices ELSE zip_cycle(needs.n, devices, 1)

(***************************************************************************)
(* Calls of the loaders                                                    *)
(***************************************************************************)
LoaderResult(op, model, needs, out, training, devices) ==
    [op |-> op, model |-> model, needs |-> needs, out |-> out,
     training |-> training, devices |-> devices]

NoModel == [type |-> "Model", path |-> "None"]

LoadersIdle ==
    /\ num_gpus = 0
    /\ fs = [p \in Paths |-> [kind |-> "absent", pth |-> "none"]]
    /\ lres = LoaderResult("idle", NoModel, NoNeeds, "None", FALSE, <<>>)

GetModel ==
    \E model \in ModelArgs :
        LET r == get_model(fs, model)
        IN  /\ lres' = LoaderResult("get_model", model, NoNeeds, r.out,
                                    r.training, <<>>)
            /\ UNCHANGED <<num_gpus, fs, pvars, fvars>>

GetDevices ==
    \E needs \in NeedsArgs :
        /\ lres' = LoaderResult("get_devices", NoModel, needs, "list", FALSE,
                                get_devices(num_gpus, needs))
        /\ UNCHANGED <<num_gpus, fs, pvars, fvars>>

(***************************************************************************)
(* Pipeline.from_pretrained(checkpoint_path, hparams_file).                *)
(*                                                                         *)
(* The descriptor names the pipeline class; a class is what its __init__   *)
(* assigns to the attributes x, y, z after Pipeline.__init__, and whether  *)
(* it sets self.device.  A preprocessor spec is a dict or a str:           *)
(*   dict:name      a dict whose "name" is a class get_class_by_name finds *)
(*   dict:unknown   a dict whose "name" get_class_by_name cannot resolve   *)
(*   dict:noname    a dict without the key "name"                          *)
(*   str:database   the path of a database.yml that FileFinder loads       *)
(*   str:template   a path no file is at: FileFinder raises                *)
(*                  FileNotFoundError                                      *)
(*   str:malformed  the path of a file FileFinder cannot load as YAML      *)
(* freeze() rebinds parameters to Frozen parameters, which are Parameters  *)
(* like the ones they replace; check_version only warns.                   *)
(***************************************************************************)
NamesTo     == <<"x", "y", "z">>
Registrable == Modules \cup Inferences \cup SubPipelines

New ==
    [init |-> FALSE, dict |-> <<>>, params |-> <<>>, inst |-> <<>>,
     pipes |-> <<>>, models |-> <<>>, infs |-> <<>>]

Is(S) ==
    /\ constructed = S.init
    /\ __dict__ = S.dict
    /\ _parameters = S.params
    /\ _instantiated = S.inst
    /\ _pipelines = S.pipes
    /\ _models = S.models
    /\ _inferences = S.infs

RECURSIVE Assigned(_, _, _)
Assigned(S, names, values) ==
    IF names = <<>> THEN S
    ELSE Assigned(IF Head(values) = "unassigned" THEN S
                  ELSE __setattr__(S, Head(names), Head(values)).st,
                  Tail(names), Tail(values))

ClassNames == {"A", "B", "C"}
ClassAttrs(name) ==
    CASE name = "A" -> <<"p1", "m1", "i1">>
      [] name = "B" -> <<"q1", "m1", "m2">>
      [] OTHER      -> <<"unassigned", "unassigned", "unassigned">>
ClassDevice(name) == IF name = "B" THEN "cpu" ELSE "unset"

PreKeys  == <<"k1", "k2">>
PreSpecs == {"dict:name", "dict:unknown", "dict:noname",
             "str:database", "str:template", "str:malformed"}
PreItems ==
    {<<>>} \cup {<< <<PreKeys[1], a>> >> : a \in PreSpecs}
           \cup {<< <<PreKeys[1], a>>, <<PreKeys[2], b>> >> : a, b \in PreSpecs}
PreConfigs ==
    {[present |-> FALSE, items |-> <<>>]} \cup [present : {TRUE}, items : PreItems]

Configs ==
    [name : ClassNames \cup {"unknown"},
     params : {"absent", "compatible", "incompatible"},
     preprocessors : PreConfigs,
     device : {"absent", "cpu", "cuda:0", "bogus"}]

NoConfig ==
    [name |-> "unknown", params |-> "absent",
     preprocessors |-> [present |-> FALSE, items |-> <<>>], device |-> "absent"]

LoadArgs ==
    {[isfile |-> FALSE, hparams_file |-> "None", config |-> NoConfig]}
        \cup [isfile : {TRUE}, hparams_file : {"None", "file"}, config : Configs]

isinstance_dict(spec) == spec \in {"dict:name", "dict:unknown", "dict:noname"}

\* one turn of the loop over config["preprocessors"]: what is built for the
\* key, or what is raised, and which constructors were called
Built(kind, tried)   == [out |-> "ok", built |-> kind, tried |-> tried]
Raised(e, tried)     == [out |-> e, built |-> "none", tried |-> tried]

\* the dict branch taken only by a dict that has the key "name"
build_preprocessor_by_name(spec) ==
    IF spec \in {"dict:name", "dict:unknown"} THEN
        IF spec = "dict:unknown" THEN Raised("ImportError", <<"get_class_by_name">>)
        ELSE Built("instance", <<"get_class_by_name">>)
    ELSE IF spec = "str:database" THEN Built("FileFinder", <<"FileFinder">>)
    ELSE IF spec \in {"str:template", "dict:noname"}
        THEN Built("template", <<"FileFinder">>)
    ELSE Raised("YAMLError", <<"FileFinder">>)

build_preprocessor(spec) ==
    IF isinstance_dict(spec) THEN
        IF spec = "dict:noname" THEN Raised("KeyError", <<>>)
        ELSE IF spec = "dict:unknown"
            THEN Raised("ImportError", <<"get_class_by_name">>)
        ELSE Built("instance", <<"get_class_by_name">>)
    ELSE IF spec = "str:database" THEN Built("FileFinder", <<"FileFinder">>)
    ELSE IF spec = "str:template" THEN Built("template", <<"FileFinder">>)
    ELSE Raised("YAMLError", <<"FileFinder">>)

Tag(key, steps) == [i \in 1..Len(steps) |-> <<key, steps[i]>>]

RECURSIVE build_preprocessors(_, _, _, _)
build_preprocessors(items, map, tried, visited) ==
    IF items = <<>>
    THEN [out |-> "ok", map |-> map, tried |-> tried, visited |-> visited]
    ELSE
        LET key == Head(items)[1]
            r   == build_preprocessor(Head(items)[2])
        IN  IF r.out # "ok"
            THEN [out |-> r.out, map |-> map, tried |-> tried \o Tag(key, r.tried),
                  visited |-> visited + 1]
            ELSE build_preprocessors(Tail(items), Put(map, key, r.built),
                                     tried \o Tag(key, r.tried), visited + 1)

\* `except RuntimeError` dropped: nothing that to() raises is caught
caught_nothing(e) == FALSE

\* except RuntimeError
caught(e) == e = "RuntimeError"

NoPre == [set |-> FALSE, map |-> <<>>]

Loaded(S, heap, dev, pre, stage, out, transfer, before, tried, visited) ==
    [st |-> S, heap |-> heap, device |-> dev, pre |-> pre, stage |-> stage,
     out |-> out, transfer |-> transfer, before |-> before, tried |-> tried,
     visited |-> visited]

OnCpu == [o \in Objects |-> "cpu"]

from_pretrained(args, fail, kind) ==
    IF ~args.isfile THEN
        Loaded(New, OnCpu, "unset", NoPre, "isfile", "FileNotFoundError", "none",
               "unset", <<>>, 0)
    ELSE IF args.config.name \notin ClassNames THEN
        Loaded(New, OnCpu, "unset", NoPre, "get_class_by_name", "ImportError",
               "none", "unset", <<>>, 0)
    ELSE
        LET cfg  == args.config
            P    == Assigned(__init__(New), NamesTo, ClassAttrs(cfg.name))
            dev  == ClassDevice(cfg.name)
            r1   == IF cfg.params = "absent" THEN Returns(P, "self")
                    ELSE instantiate(P, cfg.params = "compatible")
            r2   == IF args.hparams_file = "None" THEN r1
                    ELSE instantiate(r1.st, TRUE)
            b    == IF cfg.preprocessors.present
                    THEN build_preprocessors(cfg.preprocessors.items, <<>>, <<>>, 0)
                    ELSE [out |-> "ok", map |-> <<>>, tried |-> <<>>, visited |-> 0]
            pre  == [set |-> cfg.preprocessors.present, map |-> b.map]
            t    == to(r2.st, OnCpu, dev, cfg.device, fail, kind)
        IN  IF r1.out = "ValueError" THEN
                Loaded(r1.st, OnCpu, dev, NoPre, "instantiate", "ValueError",
                       "none", dev, <<>>, 0)
            ELSE IF b.out # "ok" THEN
                Loaded(r2.st, OnCpu, dev, NoPre, "preprocessors", b.out, "none",
                       dev, b.tried, b.visited)
            ELSE IF cfg.device = "absent" THEN
                Loaded(r2.st, OnCpu, dev, pre, "return", "pipeline", "none", dev,
                       b.tried, b.visited)
            ELSE IF cfg.device \notin TorchDevices THEN
                Loaded(r2.st, OnCpu, dev, pre, "torch.device", "RuntimeError",
                       "none", dev, b.tried, b.visited)
            ELSE IF t.out = "self" \/ caught(t.out) THEN
                Loaded(r2.st, t.heap, t.device, pre, "return", "pipeline", t.out,
                       dev, b.tried, b.visited)
            ELSE
                Loaded(r2.st, t.heap, t.device, pre, "to", t.out, t.out, dev,
                       b.tried, b.visited)

LoadResult(op, stage, out, transfer, before, tried, visited) ==
    [op |-> op, stage |-> stage, out |-> out, transfer |-> transfer,
     before |-> before, tried |-> tried, visited |-> visited]

LoadIdle ==
    /\ load_args = [isfile |-> FALSE, hparams_file |-> "None", config |-> NoConfig]
    /\ preprocessors = NoPre
    /\ fres = LoadResult("idle", "", "None", "none", "unset", <<>>, 0)

FromPretrained ==
    \E fail \in 0..Len(NamesTo), kind \in FailureKinds :
        LET r == from_pretrained(load_args, fail, kind)
        IN  /\ Become(r.st)
            /\ device_of' = r.heap
            /\ device' = r.device
            /\ preprocessors' = r.pre
            /\ fres' = LoadResult("from_pretrained", r.stage, r.out, r.transfer,
                                  r.before, r.tried, r.visited)
            /\ res' = Result("from_pretrained", "", "", r.out, "none", <<>>)
            /\ UNCHANGED <<load_args, lvars>>

(***************************************************************************)
(* Operations on the pipeline                                              *)
(***************************************************************************)
Construct ==
    /\ ~constructed
    /\ Become(__init__(Self))
    /\ res' = Result("__init__", "", "", "None", "none", <<>>)
    /\ UNCHANGED <<device, device_of, lvars, fvars>>

SetAttr(names, assignable) ==
    \E name \in names, value \in assignable :
        LET r == __setattr__(Self, name, value)
        IN  /\ Become(r.st)
            /\ res' = Result("setattr", name, value, r.out, "none", <<>>)
            /\ UNCHANGED <<device, device_of, lvars, fvars>>

GetAttr ==
    \E name \in Names :
        LET r == getattr(Self, name)
        IN  /\ Become(r.st)
            /\ res' = Result("getattr", name, "", r.out, "none", <<>>)
            /\ UNCHANGED <<device, device_of, lvars, fvars>>

DelAttr ==
    \E name \in Names :
        LET r == __delattr__(Self, name)
        IN  /\ Become(r.st)
            /\ res' = Result("delattr", name, "", r.out, "none", <<>>)
            /\ UNCHANGED <<device, device_of, lvars, fvars>>

Call ==
    \E defaults \in DefaultParameters, valid_file \in BOOLEAN :
        LET r == __call__(Self, defaults, valid_file)
        IN  /\ Become(r.st)
            /\ res' = Result("call", "", defaults, r.out, r.cause, <<>>)
            /\ UNCHANGED <<device, device_of, lvars, fvars>>

To ==
    \E arg \in DeviceArgs, kind \in FailureKinds :
        \E fail \in 0..Len(to_order(Self)) :
            LET r == to(Self, device_of, device, arg, fail, kind)
            IN  /\ device_of' = r.heap
                /\ device' = r.device
                /\ res' = Result("to", "", arg, r.out, "none", r.log)
                /\ UNCHANGED <<constructed, __dict__, _parameters, _instantiated,
                               _pipelines, _models, _inferences, lvars, fvars>>


\* a pipeline as Pipeline.__init__ leaves it; its objects are on any device
Init ==
    /\ constructed = TRUE
    /\ __dict__ = <<>>
    /\ _parameters = <<>>
    /\ _instantiated = <<>>
    /\ _pipelines = <<>>
    /\ _models = <<>>
    /\ _inferences = <<>>
    /\ device = "unset"
    /\ device_of = [o \in Objects |-> "cpu"]
    /\ res = Result("__init__", "", "", "None", "none", <<>>)
    /\ LoadersIdle
    /\ LoadIdle

Next == SetAttr(Names, Values) \/ GetAttr \/ DelAttr \/ Call

Spec == Init /\ [][Next]_vars

\* the object before Pipeline.__init__ has run (a subclass's __init__ that
\* assigns attributes before it calls super().__init__())
InitNew ==
    /\ constructed = FALSE
    /\ __dict__ = <<>>
    /\ _parameters = <<>>
    /\ _instantiated = <<>>
    /\ _pipelines = <<>>
    /\ _models = <<>>
    /\ _inferences = <<>>
    /\ device = "unset"
    /\ device_of = [o \in Objects |-> "cpu"]
    /\ res = Result("__new__", "", "", "None", "none", <<>>)
    /\ LoadersIdle
    /\ LoadIdle

NextNew == Construct \/ SetAttr(Names, Values) \/ GetAttr \/ DelAttr \/ Call

SpecNew == InitNew /\ [][NextNew]_vars

\* device transfer: a pipeline as a subclass's __init__ leaves it, having
\* assigned sub-pipelines, models and inference wrappers to some of its
\* attributes after Pipeline.__init__
InitTo ==
    /\ \E values \in [1..Len(NamesTo) -> Registrable \cup {"unassigned"}] :
           Is(Assigned(__init__(New), NamesTo, values))
    /\ device = "unset"
    /\ device_of = [o \in Objects |-> "cpu"]
    /\ res = Result("__init__", "", "", "None", "none", <<>>)
    /\ LoadersIdle
    /\ LoadIdle

NextTo == To

SpecTo == InitTo /\ [][NextTo]_vars

\* the loaders, on any file system and any number of accelerators
PipelineIdle ==
    /\ Is(New)
    /\ device = "unset"
    /\ device_of = [o \in Objects |-> "cpu"]
    /\ res = Result("idle", "", "", "None", "none", <<>>)

InitLoaders ==
    /\ num_gpus \in 0..MaxGpus
    /\ fs \in [Paths -> Entries]
    /\ lres = LoaderResult("idle", NoModel, NoNeeds, "None", FALSE, <<>>)
    /\ PipelineIdle
    /\ LoadIdle

NextLoaders == GetModel \/ GetDevices

SpecLoaders == InitLoaders /\ [][NextLoaders]_vars

\* from_pretrained, on any checkpoint
InitLoad ==
    /\ load_args \in LoadArgs
    /\ preprocessors = NoPre
    /\ fres = LoadResult("idle", "", "None", "none", "unset", <<>>, 0)
    /\ PipelineIdle
    /\ LoadersIdle

NextLoad == FromPretrained

SpecLoad == InitLoad /\ [][NextLoad]_vars

(***************************************************************************)
(* Properties of the attribute router                                      *)
(***************************************************************************)
Tables == <<__dict__, _parameters, _instantiated, _pipelines, _models, _inferences>>

InherTables(S) == <<S.dict, S.params, S.inst, S.pipes>>
Holders(ts, name) == {i \in 1..Len(ts) : Has(ts[i], name)}

\* every binding of a name other than `name` is the same in S and T, in the
\* same place of its table
OthersKept(S, T, name) ==
    /\ Del(T.dict, name) = Del(S.dict, name)
    /\ Del(T.params, name) = Del(S.params, name)
    /\ Del(T.inst, name) = Del(S.inst, name)
    /\ Del(T.pipes, name) = Del(S.pipes, name)
    /\ Del(T.models, name) = Del(S.models, name)
    /\ Del(T.infs, name) = Del(S.infs, name)

\* C1: after any sequence of assignments and deletions on a constructed
\* pipeline, every name is bound in at most one of the models table, the
\* inferences table and the plain attributes (so a module and then a scalar
\* assigned to x leave x among the plain attributes only).
C1_Exclusive ==
    \A name \in Names :
        Cardinality(Holders(<<_models, _inferences, __dict__>>, name)) <= 1

\* C9: Get(name) resolves a name held by the models table to that model, else
\* a name held by the inferences table to that wrapper, else by the default
\* lookup, and fails with AttributeError when the name is nowhere.
C9_GetOrder ==
    res.op = "getattr" =>
        IF Has(_models, res.name) THEN res.out = Lookup(_models, res.name)
        ELSE IF Has(_inferences, res.name)
            THEN res.out = Lookup(_inferences, res.name)
        ELSE IF Holders(InherTables(Self), res.name) = {}
            THEN res.out = "AttributeError"
        ELSE res.out # "AttributeError"

\* C8: Delete(name) removes the name from the first table that holds it
\* (models, then inferences, then the default storage) and leaves every
\* other binding as it was; a name held nowhere gives AttributeError and no
\* change.
C8_Delete ==
    [][res'.op = "delattr" =>
        LET name == res'.name
        IN  IF Has(_models, name) THEN
                /\ res'.out = "None"
                /\ _models' = Del(_models, name)
                /\ UNCHANGED <<__dict__, _parameters, _instantiated, _pipelines,
                               _inferences>>
            ELSE IF Has(_inferences, name) THEN
                /\ res'.out = "None"
                /\ _inferences' = Del(_inferences, name)
                /\ UNCHANGED <<__dict__, _parameters, _instantiated, _pipelines,
                               _models>>
            ELSE IF Holders(InherTables(Self), name) # {} THEN
                /\ res'.out = "None"
                /\ UNCHANGED <<_models, _inferences>>
                /\ OthersKept(Self, Self', name)
                /\ Holders(InherTables(Self'), name) \subseteq
                       Holders(InherTables(Self), name)
                /\ Cardinality(Holders(InherTables(Self'), name)) =
                       Cardinality(Holders(InherTables(Self), name)) - 1
            ELSE
                /\ res'.out = "AttributeError"
                /\ UNCHANGED Tables
    ]_vars

\* a deletion that succeeded while another name stays registered as a model
C8_Witness ==
    /\ res.op = "delattr"
    /\ res.out = "None"
    /\ res.name = "x"
    /\ Has(__dict__, "x")
    /\ Has(_models, "y")

\* C10: Set(name, value) with a module stores it in the models table, with an
\* inference wrapper in the inferences table; the name is then bound in no
\* other table and the bindings of the other names are as before; before
\* Pipeline.__init__ it fails with AttributeError and changes nothing.
C10_SetRegisters ==
    [][(res'.op = "setattr" /\ res'.arg \in Modules \cup Inferences) =>
        LET name   == res'.name
            target == IF res'.arg \in Modules THEN _models' ELSE _inferences'
            other  == IF res'.arg \in Modules THEN _inferences' ELSE _models'
        IN  IF ~constructed THEN
                /\ res'.out = "AttributeError"
                /\ UNCHANGED Tables
                /\ UNCHANGED constructed
            ELSE
                /\ res'.out = "None"
                /\ Has(target, name)
                /\ Lookup(target, name) = res'.arg
                /\ ~Has(other, name)
                /\ Holders(InherTables(Self'), name) = {}
                /\ OthersKept(Self, Self', name)
    ]_vars

\* an assignment of a module refused before Pipeline.__init__
C10_Witness ==
    /\ ~constructed
    /\ res.op = "setattr"
    /\ res.arg \in Modules
    /\ res.out = "AttributeError"
    /\ Has(__dict__, "y")

\* C4: a call on an uninstantiated pipeline whose auto-instantiation fails
\* (default_parameters raises NotImplementedError, or instantiate rejects the
\* default parameters) fails with RuntimeError, leaves the pipeline
\* uninstantiated and unchanged, and does not reach apply; apply is reached
\* only on an instantiated pipeline.
C4_CallEscalates ==
    [][res'.op = "call" =>
        /\ (~instantiated(Self) /\ res'.arg # "compatible") =>
               /\ res'.out = "RuntimeError"
               /\ ~instantiated(Self')
               /\ UNCHANGED Tables
        /\ res'.out = "apply" => instantiated(Self')
    ]_vars

\* a call that failed because instantiate rejected the default parameters
C4_Witness ==
    /\ res.op = "call"
    /\ res.arg = "incompatible"
    /\ res.cause = "ValueError"
    /\ res.out = "RuntimeError"
    /\ ~instantiated(Self)

(***************************************************************************)
(* Properties of the device transfer                                       *)
(***************************************************************************)
RegisteredPipelines(S) == Range(ValuesOf(S.pipes)) \cap WithTo
RegisteredModels(S)    == Range(ValuesOf(S.models))
RegisteredInferences(S) == Range(ValuesOf(S.infs))

\* C5: to(device) with a torch.device transfers the sub-pipelines that have
\* `to`, then the models, then the inference wrappers, and assigns
\* self.device after all of them; when it returns it returns the pipeline,
\* and the pipeline, its models and its inference wrappers are on `device`.
C5_ToOrder ==
    [][(res'.op = "to" /\ res'.arg \in TorchDevices) =>
        LET done == Range(res'.log)
        IN  /\ (done \cap RegisteredModels(Self) # {}) =>
                   RegisteredPipelines(Self) \subseteq done
            /\ (done \cap RegisteredInferences(Self) # {}) =>
                   RegisteredModels(Self) \subseteq done
            /\ ("self" \in done) =>
                   RegisteredInferences(Self) \subseteq done
            /\ \A o \in Objects :
                   device_of'[o] = IF o \in done THEN res'.arg ELSE device_of[o]
            /\ device' = IF "self" \in done THEN res'.arg ELSE device
            /\ (res'.out = "self") <=> ("self" \in done)
            /\ (res'.out = "self") =>
                   /\ device' = res'.arg
                   /\ \A o \in RegisteredPipelines(Self) \cup RegisteredModels(Self)
                              \cup RegisteredInferences(Self) :
                          device_of'[o] = res'.arg
    ]_vars

\* a transfer to cuda:0 of a pipeline with a sub-pipeline, a model and an
\* inference wrapper that returned
C5_Witness ==
    /\ res.op = "to"
    /\ res.out = "self"
    /\ res.arg = "cuda:0"
    /\ Len(res.log) = 4
    /\ _pipelines # <<>> /\ _models # <<>> /\ _inferences # <<>>
    /\ device = "cuda:0"

(***************************************************************************)
(* Properties of the loaders                                               *)
(***************************************************************************)
\* C3: every call of get_model that succeeds (a file path, a directory with
\* model.pth, a mapping with "checkpoint") returns the loaded object in
\* evaluation mode.
C3_EvalMode ==
    (lres.op = "get_model" /\ lres.out = "model") => ~lres.training

\* C6: get_devices(needs) with g accelerators returns, for g = 0, one cpu
\* device when needs is None and `needs` cpu devices otherwise; for g > 0,
\* cuda:0 .. cuda:g-1 when needs is None and otherwise `needs` entries, the
\* i-th (from 0) being cuda:(i mod g).
C6_Devices ==
    lres.op = "get_devices" =>
        LET g    == num_gpus
            n    == lres.needs.n
            out  == lres.devices
        IN  IF g = 0 THEN
                IF ~lres.needs.given THEN out = <<cpu>>
                ELSE Len(out) = n /\ \A i \in 1..n : out[i] = cpu
            ELSE
                IF ~lres.needs.given
                THEN Len(out) = g /\ \A i \in 0..(g - 1) : out[i + 1] = cuda(i)
                ELSE Len(out) = n /\ \A i \in 0..(n - 1) : out[i + 1] = cuda(i % g)

\* get_devices(5) with two accelerators
C6_Witness ==
    /\ lres.op = "get_devices"
    /\ num_gpus = 2
    /\ lres.needs = [given |-> TRUE, n |-> 5]
    /\ lres.devices = <<cuda(0), cuda(1), cuda(0), cuda(1), cuda(0)>>

(***************************************************************************)
(* Properties of from_pretrained                                           *)
(***************************************************************************)
\* the call of pipeline.to(device) in from_pretrained raised
TransferFailed == fres.transfer \notin {"none", "self"}

\* C2 as stated: when the descriptor has `device` and the transfer fails,
\* whatever it raises, from_pretrained still returns the pipeline, whose
\* device is the one it had before the transfer.
C2_AnyFailureCaught ==
    (fres.op = "from_pretrained" /\ TransferFailed) =>
        /\ fres.out = "pipeline"
        /\ device = fres.before

\* C2, amended: a transfer that raises RuntimeError is caught, from_pretrained
\* returns the pipeline and its device is the one it had before; what else
\* the transfer raises leaves from_pretrained as it is, the device unchanged.
C2_RuntimeErrorCaught ==
    (fres.op = "from_pretrained" /\ TransferFailed) =>
        /\ device = fres.before
        /\ fres.out = IF fres.transfer = "RuntimeError" THEN "pipeline"
                      ELSE fres.transfer

\* a transfer to cuda:0 that raised RuntimeError after the sub-pipeline had
\* been moved
C2_Witness ==
    /\ fres.op = "from_pretrained"
    /\ fres.transfer = "RuntimeError"
    /\ fres.out = "pipeline"
    /\ load_args.config.device = "cuda:0"
    /\ device_of["p1"] = "cuda:0"
    /\ device = "unset"

PreItemsGiven == load_args.config.preprocessors.items
Tried(key, step) == <<key, step>> \in Range(fres.tried)
HasNameKey(spec) == spec \in {"dict:name", "dict:unknown"}
FileFinderFails(spec) == spec # "str:database"

\* C7 as stated: of the entries from_pretrained comes to, a dict with a
\* `name` key is built as a dynamic-class instance without FileFinder being
\* tried; any other spec is tried as a FileFinder first and, when that
\* fails, kept as a path template; the mapping from_pretrained assigns has
\* exactly the descriptor's keys.
C7_ByNameKey ==
    (fres.op = "from_pretrained" /\ load_args.config.preprocessors.present) =>
        /\ \A i \in 1..fres.visited :
               LET key  == PreItemsGiven[i][1]
                   spec == PreItemsGiven[i][2]
               IN  IF HasNameKey(spec) THEN
                       /\ ~Tried(key, "FileFinder")
                       /\ Tried(key, "get_class_by_name")
                   ELSE
                       /\ Tried(key, "FileFinder")
                       /\ ~Tried(key, "get_class_by_name")
                       /\ FileFinderFails(spec) =>
                              /\ fres.out \in {"pipeline", "RuntimeError"} \cup FailureKinds
                              /\ fres.stage # "preprocessors"
        /\ preprocessors.set =>
               /\ ValuesOf([i \in 1..Len(preprocessors.map) |->
                              <<i, preprocessors.map[i][1]>>])
                      = ValuesOf([i \in 1..Len(PreItemsGiven) |->
                                    <<i, PreItemsGiven[i][1]>>])
               /\ \A i \in 1..Len(PreItemsGiven) :
                      preprocessors.map[i][2] =
                          IF HasNameKey(PreItemsGiven[i][2]) THEN "instance"
                          ELSE IF FileFinderFails(PreItemsGiven[i][2]) THEN "template"
                          ELSE "FileFinder"

\* C7, amended: the kind is selected by the spec's type.  For a dict only the
\* dynamic class is tried, never FileFinder, and a dict without `name` makes
\* from_pretrained fail with KeyError; for any other spec FileFinder is
\* tried first, and only when it raises FileNotFoundError is the spec kept
\* as a path template, any other failure leaving from_pretrained; when the
\* mapping is assigned it has exactly the descriptor's keys.
C7_ByType ==
    (fres.op = "from_pretrained" /\ load_args.config.preprocessors.present) =>
        /\ \A i \in 1..fres.visited :
               LET key  == PreItemsGiven[i][1]
                   spec == PreItemsGiven[i][2]
               IN  IF isinstance_dict(spec) THEN
                       /\ ~Tried(key, "FileFinder")
                       /\ Tried(key, "get_class_by_name") <=> HasNameKey(spec)
                       /\ ~HasNameKey(spec) =>
                              /\ fres.out = "KeyError"
                              /\ fres.stage = "preprocessors"
                              /\ i = fres.visited
                   ELSE
                       /\ Tried(key, "FileFinder")
                       /\ ~Tried(key, "get_class_by_name")
                       /\ spec = "str:malformed" =>
                              /\ fres.out = "YAMLError"
                              /\ fres.stage = "preprocessors"
                              /\ i = fres.visited
        /\ preprocessors.set =>
               /\ fres.visited = Len(PreItemsGiven)
               /\ ValuesOf([i \in 1..Len(preprocessors.map) |->
                              <<i, preprocessors.map[i][1]>>])
                      = ValuesOf([i \in 1..Len(PreItemsGiven) |->
                                    <<i, PreItemsGiven[i][1]>>])
               /\ \A i \in 1..Len(PreItemsGiven) :
                      preprocessors.map[i][2] =
                          CASE PreItemsGiven[i][2] = "dict:name"    -> "instance"
                            [] PreItemsGiven[i][2] = "str:database" -> "FileFinder"
                            [] PreItemsGiven[i][2] = "str:template" -> "template"
                            [] OTHER -> "none"
        /\ (fres.stage \in {"torch.device", "to", "return"}) => preprocessors.set

\* a pipeline returned with a dynamic-class instance under k1 and a path
\* template under k2
C7_Witness ==
    /\ fres.op = "from_pretrained"
    /\ fres.out = "pipeline"
    /\ preprocessors.set
    /\ preprocessors.map = << <<"k1", "instance">>, <<"k2", "template">> >>
    /\ fres.tried = << <<"k1", "get_class_by_name">>, <<"k2", "FileFinder">> >>

====
